---- MODULE Spec2Model ----
(***************************************************************************)
(* Model of visor_transcripciones.py: the file pairer (emparejar_archivos), *)
(* the text decoder (leer_texto), the image encoder (imagen_a_base64), the  *)
(* content escaper and the artifact assembler (generar_html), and main.     *)
(*                                                                          *)
(* A Python str is modelled as a sequence of Unicode code points and a      *)
(* bytes object as a sequence of integers 0..255, so that lower-casing,     *)
(* ordering, decoding and escaping are computed and not assumed.            *)
(***************************************************************************)
EXTENDS Integers, Sequences, FiniteSets, TLC

VARIABLES
  plataforma,    \* "posix" or "nt": decides os.path.normcase inside glob
  dirImg,        \* file names directly in the image directory
  dirTxt,        \* file names directly in the text directory
  pc,            \* position of main
  extIdx,        \* index of the next glob pattern of the running loop
  imagenes,      \* dict nombre_base -> ruta (images)
  textos,        \* dict nombre_base -> ruta (texts)
  enumImg,       \* history: image paths in the order the loops visited them
  enumTxt,       \* history: text paths in the order the loops visited them
  pares,         \* the list returned by emparejar_archivos
  preguntado,    \* main asked for the output name (line 489)
  ruta_salida,   \* output path handed to generar_html
  generarLlamado,\* generar_html has been called
  i,             \* loop index of generar_html (1-based)
  paginas_js,    \* the records built so far
  leidos,        \* history: paths whose read was attempted, in order
  fallo,         \* 0, or the index of the pair whose read raised
  salida0,       \* the output file before the run
  salida,        \* the output file now
  exitCode,      \* process exit status, -1 while running
  bytesIn,       \* leer_texto / escaper harness: the input
  fase,          \* harness position
  texto,         \* decoded text
  texto_escaped, \* after html.escape
  texto_js,      \* after the three replace calls
  literal,       \* what the script engine reads back from the literal
  mostrado       \* what innerHTML displays

vars == <<plataforma, dirImg, dirTxt, pc, extIdx, imagenes, textos, enumImg,
          enumTxt, pares, preguntado, ruta_salida, generarLlamado, i,
          paginas_js, leidos, fallo, salida0, salida, exitCode, bytesIn, fase,
          texto, texto_escaped, texto_js, literal, mostrado>>

pipeVars == <<plataforma, dirImg, dirTxt, pc, extIdx, imagenes, textos,
              enumImg, enumTxt, pares, preguntado, ruta_salida,
              generarLlamado, i, paginas_js, leidos, fallo, salida0, salida,
              exitCode>>

harnessVars == <<bytesIn, fase, texto, texto_escaped, texto_js, literal,
                 mostrado>>

(***************************************************************************)
(* Bounds of the model.                                                     *)
(***************************************************************************)
MaxImg == 2
MaxTxt == 2
MaxLenTexto == 3
MaxLenBytes == 3

(***************************************************************************)
(* Code points used in the model, by name.                                  *)
(***************************************************************************)
c == [nl |-> 10, cr |-> 13, sp |-> 32, dq |-> 34, hash |-> 35, dollar |-> 36,
      amp |-> 38, sq |-> 39, plus |-> 43, comma |-> 44, dot |-> 46,
      slash |-> 47, d0 |-> 48, d2 |-> 50, d4 |-> 52,
      d6 |-> 54, d7 |-> 55, colon |-> 58,
      semi |-> 59, lt |-> 60, eq |-> 61, gt |-> 62, A |-> 65, B |-> 66,
      E |-> 69, G |-> 71, J |-> 74, P |-> 80, T |-> 84, X |-> 88,
      bs |-> 92, us |-> 95, bt |-> 96, a |-> 97, b |-> 98, c |-> 99, d |-> 100, e |-> 101, f |-> 102,
      g |-> 103, h |-> 104, i |-> 105, j |-> 106, l |-> 108, m |-> 109, n |-> 110,
      o |-> 111, p |-> 112, q |-> 113, r |-> 114, s |-> 115, t |-> 116, u |-> 117,
      v |-> 118, x |-> 120, lbrace |-> 123, rbrace |-> 125, repl |-> 65533]

(***************************************************************************)
(* Generic helpers on sequences.                                            *)
(***************************************************************************)
Range(s) == {s[k] : k \in DOMAIN s}

SeqsUpTo(S, n) == UNION {[1..k -> S] : k \in 0..n}

Perms(S) == {f \in [1..Cardinality(S) -> S] : \A x \in S : \E k \in DOMAIN f : f[k] = x}

SubsetsUpTo(S, n) == {X \in SUBSET S : Cardinality(X) <= n}

EndsWith(s, suf) ==
  /\ Len(s) >= Len(suf)
  /\ SubSeq(s, Len(s) - Len(suf) + 1, Len(s)) = suf

StartsWithAt(s, k, pre) ==
  /\ k + Len(pre) - 1 <= Len(s)
  /\ SubSeq(s, k, k + Len(pre) - 1) = pre

\* str comparison of Python: by code point, a proper prefix is smaller
RECURSIVE StrLess(_, _)
StrLess(s, t) ==
  IF t = <<>> THEN FALSE
  ELSE IF s = <<>> THEN TRUE
  ELSE IF Head(s) # Head(t) THEN Head(s) < Head(t)
  ELSE StrLess(Tail(s), Tail(t))

\* str.lower on the code points the model uses (ASCII and Latin-1 letters)
LowerCh(ch) ==
  IF (ch >= 65 /\ ch <= 90) \/ (ch >= 192 /\ ch <= 222 /\ ch # 215)
  THEN ch + 32 ELSE ch

Lower(s) == [k \in DOMAIN s |-> LowerCh(s[k])]

(***************************************************************************)
(* File names of the model. A path is modelled by its last component: the   *)
(* directory part that os.path.join prepends is the same for every file of  *)
(* one directory and Path(ruta).stem does not read it.                      *)
(***************************************************************************)
ImgUniverse ==
  { <<c.a, c.dot, c.j, c.p, c.g>>,              \* a.jpg
    <<c.A, c.dot, c.J, c.P, c.G>>,              \* A.JPG
    <<c.a, c.dot, c.j, c.p, c.e, c.g>>,         \* a.jpeg
    <<c.B, c.dot, c.j, c.p, c.g>>,              \* B.jpg
    <<c.b, c.dot, c.J, c.p, c.g>>,              \* b.Jpg
    <<c.b, c.bt, c.dot, c.j, c.p, c.g>>,        \* b`.jpg
    <<c.a, c.dot, c.b, c.dot, c.j, c.p, c.g>>,  \* a.b.jpg
    <<c.a, c.dot, c.p, c.n, c.g>> }             \* a.png

TxtUniverse ==
  { <<c.a, c.dot, c.t, c.x, c.t>>,              \* a.txt
    <<c.A, c.dot, c.T, c.X, c.T>>,              \* A.TXT
    <<c.b, c.dot, c.t, c.x, c.t>>,              \* b.txt
    <<c.b, c.dot, c.T, c.x, c.t>>,              \* b.Txt
    <<c.b, c.bt, c.dot, c.t, c.x, c.t>> }       \* b`.txt

\* the patterns of lines 53 and 60, without the directory part
PatronesImg ==
  << <<c.dot, c.j, c.p, c.g>>, <<c.dot, c.J, c.P, c.G>>,
     <<c.dot, c.j, c.p, c.e, c.g>>, <<c.dot, c.J, c.P, c.E, c.G>> >>

PatronesTxt ==
  << <<c.dot, c.t, c.x, c.t>>, <<c.dot, c.T, c.X, c.T>> >>

\* os.path.normcase: the identity on posix, lower-casing on nt
NormCase(plat, s) == IF plat = "nt" THEN Lower(s) ELSE s

\* fnmatch of "*" + suf against a directory entry, as glob applies it:
\* entries starting with a dot are skipped for a pattern that does not,
\* and the name and the pattern go through normcase before the match
GlobMatch(plat, name, suf) ==
  /\ name # <<>>
  /\ Head(name) # c.dot
  /\ EndsWith(NormCase(plat, name), NormCase(plat, suf))

\* the entries glob.glob returns for one pattern (in some order)
GlobSet(plat, dir, suf) == {f \in dir : GlobMatch(plat, f, suf)}

\* position of the last dot of a name, 0 when it has none (str.rfind + 1)
RECURSIVE RFindDot(_)
RFindDot(name) ==
  IF name = <<>> THEN 0
  ELSE IF name[Len(name)] = c.dot THEN Len(name)
  ELSE RFindDot(SubSeq(name, 1, Len(name) - 1))

\* PurePath.suffix: from the last dot, unless that dot is first or last
Suffix(name) ==
  LET p == RFindDot(name)
  IN IF p > 1 /\ p < Len(name) THEN SubSeq(name, p, Len(name)) ELSE <<>>

\* PurePath.stem
Stem(name) ==
  LET p == RFindDot(name)
  IN IF p > 1 /\ p < Len(name) THEN SubSeq(name, 1, p - 1) ELSE name

\* a key that keeps the letter case of the file
NombreBaseSinLower(ruta) == Stem(ruta)

\* nombre_base of lines 55 and 62
NombreBase(ruta) == Lower(Stem(ruta))

\* d[k] = v of a dict: a later assignment replaces an earlier one
DictKeepFirst(d, k, v) ==
  IF k \in DOMAIN d THEN d
  ELSE [x \in DOMAIN d \cup {k} |-> IF x = k THEN v ELSE d[x]]

DictSet(d, k, v) ==
  [x \in DOMAIN d \cup {k} |-> IF x = k THEN v ELSE d[x]]

\* the inner for loop of lines 54-56 and 61-63 over one glob result
RECURSIVE Recoger(_, _)
Recoger(d, rutas) ==
  IF rutas = <<>> THEN d
  ELSE Recoger(DictSet(d, NombreBase(Head(rutas)), Head(rutas)), Tail(rutas))

\* sorted() of a set of str: ascending by code point
RECURSIVE SortedDesc(_)
SortedDesc(S) ==
  IF S = {} THEN <<>>
  ELSE LET mx == CHOOSE x \in S : \A y \in S \ {x} : StrLess(y, x)
       IN <<mx>> \o SortedDesc(S \ {mx})

RECURSIVE Sorted(_)
Sorted(S) ==
  IF S = {} THEN <<>>
  ELSE LET mn == CHOOSE x \in S : \A y \in S \ {x} : StrLess(x, y)
       IN <<mn>> \o Sorted(S \ {mn})

\* line 66
NombresComunes(imgs, txts) == Sorted(DOMAIN imgs \cap DOMAIN txts)

\* lines 67-73
Pares(imgs, txts) ==
  LET nombres == NombresComunes(imgs, txts)
  IN [k \in DOMAIN nombres |->
        [nombre   |-> Stem(imgs[nombres[k]]),
         ruta_img |-> imgs[nombres[k]],
         ruta_txt |-> txts[nombres[k]]]]

EmptyDict == [x \in {} |-> <<>>]

(***************************************************************************)
(* main and emparejar_archivos.                                             *)
(***************************************************************************)
\* "visor_transcripciones.html", line 491
NombrePorDefecto ==
  <<c.v, c.i, c.s, c.o, c.r, c.us, c.t, c.r, c.a, c.n, c.s, c.c, c.r, c.i,
    c.p, c.c, c.i, c.o, c.n, c.e, c.s, c.dot, c.h, c.t, c.m, c.l>>

PuntoHtml == <<c.dot, c.h, c.t, c.m, c.l>>

\* answers to the prompt of line 489, already stripped
RespuestasSalida == { <<>>, <<c.v>>, <<c.v>> \o PuntoHtml }

\* lines 490-493
NombreSalida(resp) ==
  LET n1 == IF resp = <<>> THEN NombrePorDefecto ELSE resp
  IN IF EndsWith(n1, PuntoHtml) THEN n1 ELSE n1 \o PuntoHtml

\* a directory holds no two names that its file system takes for the same
SinChoque(plat, dir) ==
  plat = "nt" => \A f, g \in dir : Lower(f) = Lower(g) => f = g

\* the output file: absent, left by an earlier run, or written by this one
Archivo(estado, ruta, paginas) ==
  [estado |-> estado, ruta |-> ruta, paginas |-> paginas]

HarnessIdle ==
  /\ bytesIn = <<>>
  /\ fase = "idle"
  /\ texto = <<>>
  /\ texto_escaped = <<>>
  /\ texto_js = <<>>
  /\ literal = <<>>
  /\ mostrado = <<>>

PipeStart ==
  /\ pc = "inicio"
  /\ extIdx = 1
  /\ imagenes = EmptyDict
  /\ textos = EmptyDict
  /\ enumImg = <<>>
  /\ enumTxt = <<>>
  /\ pares = <<>>
  /\ preguntado = FALSE
  /\ ruta_salida = <<>>
  /\ generarLlamado = FALSE
  /\ i = 0
  /\ paginas_js = <<>>
  /\ leidos = <<>>
  /\ fallo = 0
  /\ salida = salida0
  /\ exitCode = -1

Init ==
  /\ plataforma \in {"posix", "nt"}
  /\ dirImg \in SubsetsUpTo(ImgUniverse, MaxImg)
  /\ dirTxt \in SubsetsUpTo(TxtUniverse, MaxTxt)
  /\ SinChoque(plataforma, dirImg)
  /\ SinChoque(plataforma, dirTxt)
  /\ salida0 \in {Archivo("ausente", <<>>, <<>>), Archivo("previo", <<>>, <<>>)}
  /\ PipeStart
  /\ HarnessIdle

\* lines 471-472: both prompts answered with existing directories
ObtenerCarpetas ==
  /\ pc = "inicio"
  /\ pc' = "glob_img"
  /\ UNCHANGED <<plataforma, dirImg, dirTxt, extIdx, imagenes, textos,
                 enumImg, enumTxt, pares, preguntado, ruta_salida,
                 generarLlamado, i, paginas_js, leidos, fallo, salida0,
                 salida, exitCode>>
  /\ UNCHANGED harnessVars

\* lines 53-56: one pattern of the image loop, the directory listed in any order
GlobImg ==
  /\ pc = "glob_img"
  /\ \E orden \in Perms(GlobSet(plataforma, dirImg, PatronesImg[extIdx])) :
       /\ imagenes' = Recoger(imagenes, orden)
       /\ enumImg' = enumImg \o orden
  /\ IF extIdx < Len(PatronesImg)
     THEN extIdx' = extIdx + 1 /\ pc' = pc
     ELSE extIdx' = 1 /\ pc' = "glob_txt"
  /\ UNCHANGED <<plataforma, dirImg, dirTxt, textos, enumTxt, pares,
                 preguntado, ruta_salida, generarLlamado, i, paginas_js,
                 leidos, fallo, salida0, salida, exitCode>>
  /\ UNCHANGED harnessVars

\* lines 60-63: one pattern of the text loop
GlobTxt ==
  /\ pc = "glob_txt"
  /\ \E orden \in Perms(GlobSet(plataforma, dirTxt, PatronesTxt[extIdx])) :
       /\ textos' = Recoger(textos, orden)
       /\ enumTxt' = enumTxt \o orden
  /\ IF extIdx < Len(PatronesTxt)
     THEN extIdx' = extIdx + 1 /\ pc' = pc
     ELSE extIdx' = 1 /\ pc' = "emparejar"
  /\ UNCHANGED <<plataforma, dirImg, dirTxt, imagenes, enumImg, pares,
                 preguntado, ruta_salida, generarLlamado, i, paginas_js,
                 leidos, fallo, salida0, salida, exitCode>>
  /\ UNCHANGED harnessVars

\* lines 66-75 and the assignment of line 474
Emparejar ==
  /\ pc = "emparejar"
  /\ pares' = Pares(imagenes, textos)
  /\ pc' = "verificar"
  /\ UNCHANGED <<plataforma, dirImg, dirTxt, extIdx, imagenes, textos,
                 enumImg, enumTxt, preguntado, ruta_salida, generarLlamado,
                 i, paginas_js, leidos, fallo, salida0, salida, exitCode>>
  /\ UNCHANGED harnessVars

\* the locals of emparejar_archivos (and the history kept with them) are
\* gone once main goes on with the list it returned
LocalesLiberados ==
  /\ imagenes' = EmptyDict
  /\ textos' = EmptyDict
  /\ enumImg' = <<>>
  /\ enumTxt' = <<>>

\* a main without the check of line 476: generar_html gets the empty list
SinParesSigue ==
  /\ pc = "verificar"
  /\ pares = <<>>
  /\ ruta_salida' = NombrePorDefecto
  /\ preguntado' = TRUE
  /\ generarLlamado' = TRUE
  /\ i' = 1
  /\ pc' = "escribir"
  /\ LocalesLiberados
  /\ UNCHANGED <<plataforma, dirImg, dirTxt, extIdx, pares, paginas_js,
                 leidos, fallo, salida0, salida, exitCode>>
  /\ UNCHANGED harnessVars

\* lines 476-480: no pair, sys.exit(1)
SinPares ==
  /\ pc = "verificar"
  /\ pares = <<>>
  /\ exitCode' = 1
  /\ pc' = "salida1"
  /\ LocalesLiberados
  /\ UNCHANGED <<plataforma, dirImg, dirTxt, extIdx, pares, preguntado,
                 ruta_salida, generarLlamado, i, paginas_js, leidos, fallo,
                 salida0, salida>>
  /\ UNCHANGED harnessVars

\* lines 482-496: the summary, the prompt, and the call of generar_html
Preguntar ==
  /\ pc = "verificar"
  /\ pares # <<>>
  /\ \E resp \in RespuestasSalida : ruta_salida' = NombreSalida(resp)
  /\ preguntado' = TRUE
  /\ generarLlamado' = TRUE
  /\ i' = 1
  /\ pc' = "generar"
  /\ LocalesLiberados
  /\ UNCHANGED <<plataforma, dirImg, dirTxt, extIdx, pares, paginas_js,
                 leidos, fallo, salida0, salida, exitCode>>
  /\ UNCHANGED harnessVars

(***************************************************************************)
(* leer_texto: the codecs, the newline translation of text mode, the loop.  *)
(***************************************************************************)
EsCont(b) == b >= 128 /\ b <= 191

\* length of the UTF-8 sequence a lead byte announces, 0 for no lead byte
Utf8Need(b0) ==
  IF b0 < 128 THEN 1
  ELSE IF b0 >= 194 /\ b0 <= 223 THEN 2
  ELSE IF b0 >= 224 /\ b0 <= 239 THEN 3
  ELSE IF b0 >= 240 /\ b0 <= 244 THEN 4
  ELSE 0

\* the second byte a lead byte admits (no overlong forms, no surrogates)
Utf8Second(b0, b1) ==
  IF b0 = 224 THEN b1 >= 160 /\ b1 <= 191
  ELSE IF b0 = 237 THEN b1 >= 128 /\ b1 <= 159
  ELSE IF b0 = 240 THEN b1 >= 144 /\ b1 <= 191
  ELSE IF b0 = 244 THEN b1 >= 128 /\ b1 <= 143
  ELSE EsCont(b1)

\* how many leading bytes of b are a well-formed start of one sequence
Utf8Prefix(b) ==
  LET need == Utf8Need(b[1])
  IN IF need = 0 THEN 0
     ELSE IF need = 1 \/ Len(b) < 2 \/ ~Utf8Second(b[1], b[2]) THEN 1
     ELSE IF need = 2 \/ Len(b) < 3 \/ ~EsCont(b[3]) THEN 2
     ELSE IF need = 3 \/ Len(b) < 4 \/ ~EsCont(b[4]) THEN 3
     ELSE 4

Utf8Value(b, n) ==
  IF n = 1 THEN b[1]
  ELSE IF n = 2 THEN (b[1] - 192) * 64 + (b[2] - 128)
  ELSE IF n = 3 THEN (b[1] - 224) * 4096 + (b[2] - 128) * 64 + (b[3] - 128)
  ELSE (b[1] - 240) * 262144 + (b[2] - 128) * 4096 + (b[3] - 128) * 64
       + (b[4] - 128)

\* bytes.decode("utf-8", errors): ok is FALSE where strict decoding raises;
\* with "replace" every ill-formed subsequence becomes one U+FFFD
RECURSIVE Utf8Decode(_, _)
Utf8Decode(b, errors) ==
  IF b = <<>> THEN [ok |-> TRUE, s |-> <<>>]
  ELSE LET k == Utf8Prefix(b)
           good == k > 0 /\ k = Utf8Need(b[1])
           used == IF k = 0 THEN 1 ELSE k
           rest == Utf8Decode(SubSeq(b, used + 1, Len(b)), errors)
       IN IF good
          THEN [ok |-> rest.ok, s |-> <<Utf8Value(b, k)>> \o rest.s]
          ELSE IF errors = "replace"
          THEN [ok |-> rest.ok, s |-> <<c.repl>> \o rest.s]
          ELSE [ok |-> FALSE, s |-> <<>>]

\* latin-1: every byte is the code point of the same value
Latin1Decode(b) == [ok |-> TRUE, s |-> b]

\* cp1252 for the bytes 0x80..0x9F, 0 where the code page defines nothing
Cp1252Alto ==
  <<8364, 0, 8218, 402, 8222, 8230, 8224, 8225, 710, 8240, 352, 8249, 338, 0,
    381, 0, 0, 8216, 8217, 8220, 8221, 8226, 8211, 8212, 732, 8482, 353,
    8250, 339, 0, 382, 376>>

Cp1252Ch(b) == IF b >= 128 /\ b <= 159 THEN Cp1252Alto[b - 127] ELSE b

Cp1252Decode(b) ==
  [ok |-> \A k \in DOMAIN b : Cp1252Ch(b[k]) # 0 \/ b[k] = 0,
   s  |-> [k \in DOMAIN b |-> Cp1252Ch(b[k])]]

Decode(enc, errors, b) ==
  IF enc = "utf-8" THEN Utf8Decode(b, errors)
  ELSE IF enc = "latin-1" THEN Latin1Decode(b)
  ELSE Cp1252Decode(b)

\* text mode with newline=None: "\r\n" and a lone "\r" are read as "\n"
RECURSIVE Newlines(_)
Newlines(s) ==
  IF s = <<>> THEN <<>>
  ELSE IF Head(s) = c.cr
  THEN IF Len(s) >= 2 /\ s[2] = c.nl
       THEN <<c.nl>> \o Newlines(SubSeq(s, 3, Len(s)))
       ELSE <<c.nl>> \o Newlines(Tail(s))
  ELSE <<Head(s)>> \o Newlines(Tail(s))

\* open(ruta, "r", encoding=enc, errors=errors).read() on a readable file
LeerCon(enc, errors, b) ==
  LET r == Decode(enc, errors, b)
  IN [ok |-> r.ok, s |-> IF r.ok THEN Newlines(r.s) ELSE <<>>]

\* the tuple of line 38
Codificaciones == <<"utf-8", "latin-1", "cp1252">>

\* a reader that gives up after the first encoding
leer_texto_estricto(b) ==
  LET r == LeerCon("utf-8", "strict", b)
  IN [raised |-> ~r.ok, valor |-> r.s]

\* lines 38-46 on the bytes of a readable file
RECURSIVE LeerDesde(_, _)
LeerDesde(k, b) ==
  IF k > Len(Codificaciones)
  THEN LET r == LeerCon("utf-8", "replace", b)
       IN [raised |-> ~r.ok, valor |-> r.s]
  ELSE LET r == LeerCon(Codificaciones[k], "strict", b)
       IN IF r.ok THEN [raised |-> FALSE, valor |-> r.s]
          ELSE LeerDesde(k + 1, b)

leer_texto(b) == LeerDesde(1, b)

(***************************************************************************)
(* imagen_a_base64.                                                         *)
(***************************************************************************)
\* the base-64 alphabet, index 0..63
B64Ch(n) ==
  IF n < 26 THEN 65 + n
  ELSE IF n < 52 THEN 97 + (n - 26)
  ELSE IF n < 62 THEN 48 + (n - 52)
  ELSE IF n = 62 THEN c.plus
  ELSE c.slash

\* base64.b64encode(datos).decode("utf-8")
RECURSIVE B64Encode(_)
B64Encode(b) ==
  IF b = <<>> THEN <<>>
  ELSE IF Len(b) = 1
  THEN <<B64Ch(b[1] \div 4), B64Ch((b[1] % 4) * 16), c.eq, c.eq>>
  ELSE IF Len(b) = 2
  THEN <<B64Ch(b[1] \div 4), B64Ch((b[1] % 4) * 16 + b[2] \div 16),
         B64Ch((b[2] % 16) * 4), c.eq>>
  ELSE <<B64Ch(b[1] \div 4), B64Ch((b[1] % 4) * 16 + b[2] \div 16),
         B64Ch((b[2] % 16) * 4 + b[3] \div 64), B64Ch(b[3] % 64)>>
       \o B64Encode(SubSeq(b, 4, Len(b)))

imagen_a_base64(datos) == B64Encode(datos)

(***************************************************************************)
(* The content escaper: html.escape and the three replace calls.            *)
(***************************************************************************)
\* str.replace(old, new) for a one-character old
RECURSIVE Replace(_, _, _)
Replace(s, old, new) ==
  IF s = <<>> THEN <<>>
  ELSE (IF Head(s) = old THEN new ELSE <<Head(s)>>)
       \o Replace(Tail(s), old, new)

EntAmp  == <<c.amp, c.a, c.m, c.p, c.semi>>
EntLt   == <<c.amp, c.l, c.t, c.semi>>
EntGt   == <<c.amp, c.g, c.t, c.semi>>
EntQuot == <<c.amp, c.q, c.u, c.o, c.t, c.semi>>
EntApos == <<c.amp, c.hash, c.x, c.d2, c.d7, c.semi>>

\* an escape that replaces the ampersand last
html_escape_amp_ultimo(s) ==
  Replace(Replace(Replace(Replace(Replace(s, c.lt, EntLt), c.gt, EntGt),
          c.dq, EntQuot), c.sq, EntApos), c.amp, EntAmp)

\* html.escape(s, quote=True)
html_escape(s) ==
  Replace(Replace(Replace(Replace(Replace(s, c.amp, EntAmp), c.lt, EntLt),
          c.gt, EntGt), c.dq, EntQuot), c.sq, EntApos)

\* the replace calls with the backslash escaped last
EscaparJsBarraUltima(s) ==
  Replace(Replace(Replace(s, c.bt, <<c.bs, c.bt>>),
          c.dollar, <<c.bs, c.dollar>>), c.bs, <<c.bs, c.bs>>)

\* line 90
EscaparJs(s) ==
  Replace(Replace(Replace(s, c.bs, <<c.bs, c.bs>>), c.bt, <<c.bs, c.bt>>),
          c.dollar, <<c.bs, c.dollar>>)

(***************************************************************************)
(* How the generated document is read: the script engine reads the literals *)
(* of lines 93-95, and irPagina assigns the texto field to innerHTML.       *)
(***************************************************************************)
\* the character an escape sequence of a template literal stands for,
\* -1 where the escape is a syntax error (\x, \u and \1..\9 without the
\* digits they require)
JsEscape(e) ==
  IF e = c.n THEN 10
  ELSE IF e = c.t THEN 9
  ELSE IF e = c.r THEN 13
  ELSE IF e = c.b THEN 8
  ELSE IF e = c.v THEN 11
  ELSE IF e = c.f THEN 12
  ELSE IF e = c.d0 THEN 0
  ELSE IF e = c.u \/ e = c.x \/ (e > 48 /\ e <= 57) THEN -1
  ELSE e

\* reading `src` as the body of a template literal whose closing backtick
\* follows it: ok is FALSE when the literal ends before the end of src, when
\* src starts a ${ substitution, when an escape is malformed, or when a final
\* backslash escapes the closing backtick
RECURSIVE JsTemplate(_)
JsTemplate(src) ==
  IF src = <<>> THEN [ok |-> TRUE, valor |-> <<>>]
  ELSE IF Head(src) = c.bt THEN [ok |-> FALSE, valor |-> <<>>]
  ELSE IF Head(src) = c.dollar /\ Len(src) >= 2 /\ src[2] = c.lbrace
  THEN [ok |-> FALSE, valor |-> <<>>]
  ELSE IF Head(src) = c.bs
  THEN IF Len(src) = 1 \/ JsEscape(src[2]) = -1
       THEN [ok |-> FALSE, valor |-> <<>>]
       ELSE LET rest == JsTemplate(SubSeq(src, 3, Len(src)))
            IN [ok |-> rest.ok,
                valor |-> (IF src[2] = c.nl THEN <<>>
                           ELSE <<JsEscape(src[2])>>) \o rest.valor]
  ELSE IF Head(src) = c.cr
  THEN LET skip == IF Len(src) >= 2 /\ src[2] = c.nl THEN 3 ELSE 2
           rest == JsTemplate(SubSeq(src, skip, Len(src)))
       IN [ok |-> rest.ok, valor |-> <<c.nl>> \o rest.valor]
  ELSE LET rest == JsTemplate(Tail(src))
       IN [ok |-> rest.ok, valor |-> <<Head(src)>> \o rest.valor]

\* reading `src` as the body of a double-quoted string literal: a quote, a
\* backslash or a line terminator inside it is not plain content
JsComillas(src) ==
  [ok |-> \A k \in DOMAIN src : src[k] \notin {c.dq, c.bs, c.nl, c.cr},
   valor |-> src]

\* the character references innerHTML resolves in text
Referencias ==
  << <<EntAmp, c.amp>>, <<EntLt, c.lt>>, <<EntGt, c.gt>>,
     <<EntQuot, c.dq>>, <<EntApos, c.sq>>,
     <<SubSeq(EntAmp, 1, 4), c.amp>>, <<SubSeq(EntLt, 1, 3), c.lt>>,
     <<SubSeq(EntGt, 1, 3), c.gt>>, <<SubSeq(EntQuot, 1, 5), c.dq>> >>

\* index of the first reference that starts s, 0 when none does
PrimeraReferencia(s) ==
  LET hits == {k \in DOMAIN Referencias : StartsWithAt(s, 1, Referencias[k][1])}
  IN IF hits = {} THEN 0 ELSE CHOOSE k \in hits : \A m \in hits : k <= m

\* the text a node shows after its innerHTML is set to s (s has no tags)
RECURSIVE InnerHtmlTexto(_)
InnerHtmlTexto(s) ==
  IF s = <<>> THEN <<>>
  ELSE LET r == IF Head(s) = c.amp THEN PrimeraReferencia(s) ELSE 0
       IN IF r = 0 THEN <<Head(s)>> \o InnerHtmlTexto(Tail(s))
          ELSE <<Referencias[r][2]>>
               \o InnerHtmlTexto(SubSeq(s, Len(Referencias[r][1]) + 1, Len(s)))

\* "data:image/jpeg;base64," of line 94
PrefijoDataUri ==
  <<c.d, c.a, c.t, c.a, c.colon, c.i, c.m, c.a, c.g, c.e, c.slash, c.j, c.p,
    c.e, c.g, c.semi, c.b, c.a, c.s, c.e, c.d6, c.d4, c.comma>>

\* lines 86-97: the record of one pair, each field the text the f-string
\* puts between the delimiters of its literal
Pagina(par, datos, txt) ==
  [nombre |-> html_escape(par.nombre),
   imagen |-> PrefijoDataUri \o imagen_a_base64(datos),
   texto  |-> EscaparJs(html_escape(txt))]

(***************************************************************************)
(* generar_html.                                                            *)
(***************************************************************************)
\* contents an image file may have when it is read
MuestrasImg == { <<255, 216>>, <<255, 216, 255, 224>> }

\* contents a text file may have when it is read: `${a}` in back quotes,
\* and <&\ followed by a Latin-1 e-acute (not valid UTF-8)
MuestrasTxt ==
  { <<c.bt, c.dollar, c.lbrace, c.a, c.rbrace, c.bt>>,
    <<c.lt, c.amp, c.bs, 233>> }

Lectura(ruta, ok, datos) == [ruta |-> ruta, ok |-> ok, datos |-> datos]

\* line 86 raises: the image of pair i cannot be read
FalloImagen ==
  /\ pc = "generar"
  /\ leidos' = Append(leidos, Lectura(pares[i].ruta_img, FALSE, <<>>))
  /\ fallo' = i
  /\ exitCode' = 1
  /\ pc' = "error"
  /\ UNCHANGED <<plataforma, dirImg, dirTxt, extIdx, imagenes, textos,
                 enumImg, enumTxt, pares, preguntado, ruta_salida,
                 generarLlamado, i, paginas_js, salida0, salida>>
  /\ UNCHANGED harnessVars

\* line 86 returns and line 87 raises: the text of pair i cannot be read
FalloTexto ==
  /\ pc = "generar"
  /\ \E datos \in MuestrasImg :
       leidos' = leidos \o <<Lectura(pares[i].ruta_img, TRUE, datos),
                             Lectura(pares[i].ruta_txt, FALSE, <<>>)>>
  /\ fallo' = i
  /\ exitCode' = 1
  /\ pc' = "error"
  /\ UNCHANGED <<plataforma, dirImg, dirTxt, extIdx, imagenes, textos,
                 enumImg, enumTxt, pares, preguntado, ruta_salida,
                 generarLlamado, i, paginas_js, salida0, salida>>
  /\ UNCHANGED harnessVars

\* lines 84-97: one iteration in which both files are readable
ProcesarPar ==
  /\ pc = "generar"
  /\ \E datos \in MuestrasImg, bytes \in MuestrasTxt :
       LET leido == leer_texto(bytes)
       IN /\ leidos' = leidos \o <<Lectura(pares[i].ruta_img, TRUE, datos),
                                   Lectura(pares[i].ruta_txt, TRUE, bytes)>>
          /\ IF leido.raised
             THEN /\ fallo' = i
                  /\ exitCode' = 1
                  /\ pc' = "error"
                  /\ UNCHANGED <<i, paginas_js>>
             ELSE /\ paginas_js' =
                       Append(paginas_js, Pagina(pares[i], datos, leido.valor))
                  /\ i' = i + 1
                  /\ pc' = IF i = Len(pares) THEN "escribir" ELSE "generar"
                  /\ UNCHANGED <<fallo, exitCode>>
  /\ UNCHANGED <<plataforma, dirImg, dirTxt, extIdx, imagenes, textos,
                 enumImg, enumTxt, pares, preguntado, ruta_salida,
                 generarLlamado, salida0, salida>>
  /\ UNCHANGED harnessVars

\* an assembler that opens the output before the loop has finished
EscribirAntes ==
  /\ pc = "generar"
  /\ salida' = Archivo("escrito", ruta_salida, paginas_js)
  /\ pc' = "escribir"
  /\ UNCHANGED <<plataforma, dirImg, dirTxt, extIdx, imagenes, textos,
                 enumImg, enumTxt, pares, preguntado, ruta_salida,
                 generarLlamado, i, paginas_js, leidos, fallo, salida0,
                 exitCode>>
  /\ UNCHANGED harnessVars

\* lines 99-451 and 453-497: the document is written, main returns
Escribir ==
  /\ pc = "escribir"
  /\ salida' = Archivo("escrito", ruta_salida, paginas_js)
  /\ exitCode' = 0
  /\ pc' = "fin"
  /\ UNCHANGED <<plataforma, dirImg, dirTxt, extIdx, imagenes, textos,
                 enumImg, enumTxt, pares, preguntado, ruta_salida,
                 generarLlamado, i, paginas_js, leidos, fallo, salida0>>
  /\ UNCHANGED harnessVars

Next ==
  \/ ObtenerCarpetas
  \/ GlobImg
  \/ GlobTxt
  \/ Emparejar
  \/ SinPares
  \/ Preguntar
  \/ FalloImagen
  \/ FalloTexto
  \/ ProcesarPar
  \/ Escribir

Spec == Init /\ [][Next]_vars

(***************************************************************************)
(* The escaper on its own: any text goes through lines 88 and 90, then      *)
(* through the script engine and innerHTML.                                 *)
(***************************************************************************)
PipeIdle ==
  /\ plataforma = "posix"
  /\ dirImg = {}
  /\ dirTxt = {}
  /\ salida0 = Archivo("ausente", <<>>, <<>>)
  /\ PipeStart

AlfabetoTexto ==
  {c.amp, c.lt, c.gt, c.dq, c.sq, c.bt, c.bs, c.dollar, c.l, c.t, c.semi}

\* longer texts: &lt;  &amp;  &#x27;  `${a}`  \\`  \${
TextosDificiles ==
  { EntLt, EntAmp, EntApos,
    <<c.bt, c.dollar, c.lbrace, c.a, c.rbrace, c.bt>>,
    <<c.bs, c.bs, c.bt>>,
    <<c.bs, c.dollar, c.lbrace>>,
    <<c.amp, c.amp, c.l, c.t, c.semi, c.lt>> }

InitEsc ==
  /\ PipeIdle
  /\ bytesIn = <<>>
  /\ fase = "texto"
  /\ texto \in SeqsUpTo(AlfabetoTexto, MaxLenTexto) \cup TextosDificiles
  /\ texto_escaped = <<>>
  /\ texto_js = <<>>
  /\ literal = <<>>
  /\ mostrado = <<>>

\* line 88
PasoEscape ==
  /\ fase = "texto"
  /\ texto_escaped' = html_escape(texto)
  /\ fase' = "escaped"
  /\ UNCHANGED <<bytesIn, texto, texto_js, literal, mostrado>>
  /\ UNCHANGED pipeVars

\* line 90
PasoJs ==
  /\ fase = "escaped"
  /\ texto_js' = EscaparJs(texto_escaped)
  /\ fase' = "js"
  /\ UNCHANGED <<bytesIn, texto, texto_escaped, literal, mostrado>>
  /\ UNCHANGED pipeVars

\* lines 95 and 338-340: the script engine reads the texto literal
PasoLiteral ==
  /\ fase = "js"
  /\ LET r == JsTemplate(texto_js)
     IN /\ literal' = r.valor
        /\ fase' = IF r.ok THEN "literal" ELSE "roto"
  /\ UNCHANGED <<bytesIn, texto, texto_escaped, texto_js, mostrado>>
  /\ UNCHANGED pipeVars

\* line 361: innerHTML = p.texto
PasoMostrar ==
  /\ fase = "literal"
  /\ mostrado' = InnerHtmlTexto(literal)
  /\ fase' = "mostrado"
  /\ UNCHANGED <<bytesIn, texto, texto_escaped, texto_js, literal>>
  /\ UNCHANGED pipeVars

NextEsc ==
  \/ PasoEscape
  \/ PasoJs
  \/ PasoLiteral
  \/ PasoMostrar

SpecEsc == InitEsc /\ [][NextEsc]_vars

(***************************************************************************)
(* leer_texto on its own: any bytes of a readable file.                     *)
(***************************************************************************)
\* A, CR, LF, the two bytes of a UTF-8 e-acute, a Latin-1 e-acute, and 0x81
AlfabetoBytes == {65, 13, 10, 195, 169, 233, 129}

InitLeer ==
  /\ PipeIdle
  /\ bytesIn \in SeqsUpTo(AlfabetoBytes, MaxLenBytes)
  /\ fase = "bytes"
  /\ texto = <<>>
  /\ texto_escaped = <<>>
  /\ texto_js = <<>>
  /\ literal = <<>>
  /\ mostrado = <<>>

\* line 87: texto = leer_texto(...)
PasoLeer ==
  /\ fase = "bytes"
  /\ LET r == leer_texto(bytesIn)
     IN /\ texto' = r.valor
        /\ fase' = IF r.raised THEN "excepcion" ELSE "leido"
  /\ UNCHANGED <<bytesIn, texto_escaped, texto_js, literal, mostrado>>
  /\ UNCHANGED pipeVars

NextLeer == PasoLeer

SpecLeer == InitLeer /\ [][NextLeer]_vars

(***************************************************************************)
(* Properties.                                                              *)
(***************************************************************************)
Clave(ruta) == Lower(Stem(ruta))

ClavesImg == {Clave(f) : f \in Range(enumImg)}
ClavesTxt == {Clave(f) : f \in Range(enumTxt)}
ClavesPares == [k \in DOMAIN pares |-> Lower(pares[k].nombre)]

\* C1: when emparejar_archivos has returned, the lower-cased record names
\* are exactly the keys found among both the discovered images and the
\* discovered texts, one record per such key, with no error raised.
C1_Interseccion ==
  pc = "verificar" =>
    /\ Range(ClavesPares) = ClavesImg \cap ClavesTxt
    /\ Len(pares) = Cardinality(ClavesImg \cap ClavesTxt)
    /\ exitCode = -1

C1_Testigo ==
  /\ pc = "verificar"
  /\ pares # <<>>
  /\ ClavesImg \ ClavesTxt # {}
  /\ ClavesTxt \ ClavesImg # {}
  /\ \E k \in DOMAIN pares : pares[k].nombre # Lower(pares[k].nombre)

\* the files of a directory that some pattern of the loop finds
Descubribles(dir, patrones) ==
  {f \in dir : \E k \in DOMAIN patrones : GlobMatch(plataforma, f, patrones[k])}

\* C2: the returned list is strictly ascending in the lower-cased stem, and
\* its keys are fixed by the two directories alone, whatever the order in
\* which each listing enumerated the files.
C2_Orden ==
  pc = "verificar" =>
    /\ \A k \in 1..(Len(pares) - 1) : StrLess(ClavesPares[k], ClavesPares[k + 1])
    /\ Range(ClavesPares) =
         {Clave(f) : f \in Descubribles(dirImg, PatronesImg)}
         \cap {Clave(f) : f \in Descubribles(dirTxt, PatronesTxt)}

C2_Testigo ==
  /\ pc = "verificar"
  /\ Len(pares) >= 2
  /\ \E j, k \in DOMAIN enumImg :
       /\ j < k
       /\ StrLess(Clave(enumImg[k]), Clave(enumImg[j]))
       /\ {Clave(enumImg[j]), Clave(enumImg[k])} \subseteq Range(ClavesPares)

\* the path visited last among those of one key
UltimaCon(hist, clave) ==
  LET idx == {k \in DOMAIN hist : Clave(hist[k]) = clave}
  IN hist[CHOOSE k \in idx : \A m \in idx : m <= k]

\* C3: each record's name is the stem, in its own letter case, of the image
\* file in ruta_img; lower-cased it is the key the text was matched under;
\* among several images of one key the record holds the one visited last;
\* and each key has exactly one record.
C3_NombreYUltima ==
  pc = "verificar" =>
    \A k \in DOMAIN pares :
      /\ pares[k].ruta_img \in dirImg
      /\ pares[k].ruta_txt \in dirTxt
      /\ pares[k].nombre = Stem(pares[k].ruta_img)
      /\ ClavesPares[k] = Clave(pares[k].ruta_txt)
      /\ pares[k].ruta_img = UltimaCon(enumImg, ClavesPares[k])
      /\ Cardinality({m \in DOMAIN pares : ClavesPares[m] = ClavesPares[k]}) = 1

C3_Testigo ==
  /\ pc = "verificar"
  /\ \E k \in DOMAIN pares : \E f \in Range(enumImg) :
       /\ f # pares[k].ruta_img
       /\ Clave(f) = ClavesPares[k]

Extension(f) == Lower(Suffix(f))

\* C4: discovery ignores the letter case of the extension: the images found
\* are exactly the files of the image directory whose extension is jpg or
\* jpeg in any letter case, the texts found exactly those whose extension
\* is txt in any letter case.
C4_Descubrimiento ==
  pc = "verificar" =>
    /\ Range(enumImg) =
         {f \in dirImg : Extension(f) \in {PatronesImg[1], PatronesImg[3]}}
    /\ Range(enumTxt) = {f \in dirTxt : Extension(f) = PatronesTxt[1]}

\* C5: what the script engine reads from the texto literal is the
\* markup-escaped text, and what innerHTML shows for it is the text itself.
C5_IdaYVuelta ==
  /\ fase # "roto"
  /\ fase \in {"literal", "mostrado"} => literal = texto_escaped
  /\ fase = "mostrado" => mostrado = texto

C5_Testigo ==
  /\ fase = "mostrado"
  /\ {c.amp, c.bs, c.bt} \subseteq Range(texto)

\* number of consecutive backslashes that end right before position k
RECURSIVE BarrasAntes(_, _)
BarrasAntes(s, k) ==
  IF k <= 1 \/ s[k - 1] # c.bs THEN 0 ELSE 1 + BarrasAntes(s, k - 1)

\* C6: in texto_js every backtick and every $ follows an odd run of
\* backslashes, the string does not end in an odd run of backslashes, and no
\* raw <, > or quote character occurs.
C6_Contexto ==
  fase \in {"js", "literal", "mostrado", "roto"} =>
    /\ \A k \in DOMAIN texto_js :
         texto_js[k] \in {c.bt, c.dollar} => BarrasAntes(texto_js, k) % 2 = 1
    /\ BarrasAntes(texto_js, Len(texto_js) + 1) % 2 = 0
    /\ \A k \in DOMAIN texto_js : texto_js[k] \notin {c.lt, c.gt, c.dq, c.sq}

C6_Testigo ==
  /\ fase = "js"
  /\ {c.bt, c.dollar, c.bs} \subseteq Range(texto)
  /\ texto[Len(texto)] = c.bs

\* the value of a base-64 character, -1 for the padding
B64Val(ch) ==
  IF ch >= 65 /\ ch <= 90 THEN ch - 65
  ELSE IF ch >= 97 /\ ch <= 122 THEN ch - 71
  ELSE IF ch >= 48 /\ ch <= 57 THEN ch + 4
  ELSE IF ch = c.plus THEN 62
  ELSE IF ch = c.slash THEN 63
  ELSE -1

\* the bytes a base-64 payload stands for (length a multiple of four)
RECURSIVE B64Decode(_)
B64Decode(s) ==
  IF Len(s) < 4 THEN <<>>
  ELSE LET v1 == B64Val(s[1])
           v2 == B64Val(s[2])
           v3 == B64Val(s[3])
           v4 == B64Val(s[4])
           b1 == v1 * 4 + v2 \div 16
           b2 == (v2 % 16) * 16 + v3 \div 4
           b3 == (v3 % 4) * 64 + v4
       IN (IF v3 = -1 THEN <<b1>>
           ELSE IF v4 = -1 THEN <<b1, b2>>
           ELSE <<b1, b2, b3>>) \o B64Decode(SubSeq(s, 5, Len(s)))

\* C7: once the loop has finished, the array holds one record per pair in
\* pair order; the nombre literal reads back as the display name, the imagen
\* literal as the data URI of the image bytes, the texto literal is the
\* doubly-escaped text and reads back as a plain string.
C7_ArregloLegible ==
  pc \in {"escribir", "fin"} =>
    /\ Len(paginas_js) = Len(pares)
    /\ \A k \in DOMAIN paginas_js :
         LET pg == paginas_js[k]
             carga == SubSeq(pg.imagen, Len(PrefijoDataUri) + 1, Len(pg.imagen))
         IN /\ JsTemplate(pg.nombre).ok
            /\ JsTemplate(pg.nombre).valor = pares[k].nombre
            /\ JsComillas(pg.imagen).ok
            /\ StartsWithAt(pg.imagen, 1, PrefijoDataUri)
            /\ B64Decode(carga) = leidos[2 * k - 1].datos
            /\ JsTemplate(pg.texto).ok
            /\ pg.texto
                 = EscaparJs(html_escape(leer_texto(leidos[2 * k].datos).valor))

\* the paths generar_html reads for the first n pairs, in order
LecturasEsperadas(n) ==
  [m \in 1..(2 * n) |->
     IF m % 2 = 1 THEN pares[(m + 1) \div 2].ruta_img
     ELSE pares[m \div 2].ruta_txt]

\* C8: the output file differs from what it was before the run only when
\* main has finished with every pair read; and when a read raised, the run
\* ended in error with the output file untouched, the reads made being
\* exactly those of the pairs up to the failing one, in list order.
C8_TodoONada ==
  /\ salida # salida0 =>
       /\ pc = "fin"
       /\ fallo = 0
       /\ Len(paginas_js) = Len(pares)
       /\ Len(leidos) = 2 * Len(pares)
       /\ \A m \in DOMAIN leidos : leidos[m].ok
  /\ (\E m \in DOMAIN leidos : ~leidos[m].ok) => fallo # 0
  /\ fallo # 0 =>
       /\ pc = "error"
       /\ exitCode # 0
       /\ salida = salida0
       /\ Len(leidos) \in {2 * fallo - 1, 2 * fallo}
       /\ ~leidos[Len(leidos)].ok
       /\ \A m \in DOMAIN leidos : leidos[m].ruta = LecturasEsperadas(fallo)[m]

C8_Testigo ==
  /\ fallo = 1
  /\ Len(pares) >= 2
  /\ Len(leidos) = 2
  /\ salida0.estado = "previo"

\* the decoding of b under the first encoding of line 38 that accepts it
PrimeraDecodificacion(b) ==
  IF Utf8Decode(b, "strict").ok THEN Utf8Decode(b, "strict").s
  ELSE IF Latin1Decode(b).ok THEN Latin1Decode(b).s
  ELSE IF Cp1252Decode(b).ok THEN Cp1252Decode(b).s
  ELSE Utf8Decode(b, "replace").s

\* C9 as stated: leer_texto never raises on the content and returns the
\* decoding under the first accepting encoding, unchanged.
C9_SinCambios ==
  fase # "bytes" =>
    /\ fase = "leido"
    /\ texto = PrimeraDecodificacion(bytesIn)

\* C9 as amended: leer_texto never raises on the content and returns the
\* decoding under the first accepting encoding with every "\r\n" and every
\* lone "\r" read as "\n", and no other change.
C9_ConSaltos ==
  fase # "bytes" =>
    /\ fase = "leido"
    /\ texto = Newlines(PrimeraDecodificacion(bytesIn))

C9_Testigo ==
  /\ fase = "leido"
  /\ c.cr \in Range(bytesIn)
  /\ ~Utf8Decode(bytesIn, "strict").ok

Terminal == {"salida1", "error", "fin"}

====
